---- MODULE Spec2Model ----
(***************************************************************************)
(* Model of rosolve/client.py: the Client object (construction, proxy      *)
(* validation, balance lookup) and the task lifecycle of solve_funcaptcha  *)
(* (createTask submission, bounded polling of taskResult).                 *)
(*                                                                         *)
(* A coroutine runs without interruption between two awaits, so one action *)
(* covers the code from one suspension point to the next:                  *)
(*   SolveCall          lines 117-149  validate, build payload, issue POST *)
(*   CreateTaskResult   lines 150-159  decode body, classify, start sleep  *)
(*   Wake               lines 159-163  sleep is over, issue the poll GET   *)
(*   PollResult         lines 164-171  decode body, classify, loop or end  *)
(* The remote service and the transport are the environment: every         *)
(* response (body or transport failure) is chosen with \E.                 *)
(***************************************************************************)
EXTENDS Integers, Sequences, FiniteSets, TLC

VARIABLES sessions, clients, calls

vars == <<sessions, clients, calls>>

\* Largest max_retries argument explored.
MaxRetries == 3

\* Largest number of Client.close invocations explored per client.
MaxCloses == 2

-----------------------------------------------------------------------------
(* Python values.  A proxy argument is any Python value: None, a str (kept *)
(* as its sequence of characters so that startswith is computed), or a     *)
(* non-string such as an int.                                              *)

PyNone == [t |-> "none", s |-> <<>>, n |-> 0]

PyStr(chars) == [t |-> "str", s |-> chars, n |-> 0]

PyInt(k) == [t |-> "int", s |-> <<>>, n |-> k]

\* Python truthiness (the test of `if proxy`): None, "" and 0 are falsy.
Truthy(v) ==
    CASE v.t = "none" -> FALSE
      [] v.t = "str"  -> Len(v.s) > 0
      [] OTHER        -> v.n # 0

\* str.startswith
startswith(s, p) == Len(s) >= Len(p) /\ SubSeq(s, 1, Len(p)) = p

ProxyPrefixes ==
    { <<"h","t","t","p",":","/","/">>,
      <<"h","t","t","p","s",":","/","/">>,
      <<"s","o","c","k","s","5",":","/","/">> }

\* Proxy arguments a caller may pass (to the constructor or to a call).
ProxyArgs ==
    { PyNone,
      PyStr(<<>>),
      PyStr(<<"h","t","t","p",":","/","/","a">>),
      PyStr(<<"h","t","t","p","s",":","/","/","b">>),
      PyStr(<<"s","o","c","k","s","5",":","/","/","c">>),
      PyStr(<<"f","t","p",":","/","/","d">>),
      PyStr(<<"h","t","t","p">>),
      PyInt(5),
      PyInt(0) }

-----------------------------------------------------------------------------
(* Outcomes of a call: still running, returned a value, or raised.         *)

Pending == [kind |-> "pending", val |-> PyNone, exc |-> "", msg |-> <<>>]

Return(v) == [kind |-> "return", val |-> v, exc |-> "", msg |-> <<>>]

Raise(e, m) == [kind |-> "raise", val |-> PyNone, exc |-> e, msg |-> m]

\* A JSON string value as the Python str the decoder yields.
JStr(x) == [t |-> "jstr", s |-> <<x>>, n |-> 0]

-----------------------------------------------------------------------------
(* Client._validate_proxy: ProxyError unless a str with an accepted prefix *)

\* Mutant: the scheme names are compared without their "://".
validate_proxy_scheme_only(proxy) ==
    IF proxy.t # "str"
    THEN Raise("ProxyError", <<"Proxy must be a string">>)
    ELSE IF ~(\E p \in ProxyPrefixes :
                startswith(proxy.s, SubSeq(p, 1, Len(p) - 3)))
         THEN Raise("ProxyError",
                    <<"Proxy must start with http://, https://, or socks5://">>)
         ELSE Return(proxy)

validate_proxy(proxy) ==
    IF proxy.t # "str"
    THEN Raise("ProxyError", <<"Proxy must be a string">>)
    ELSE IF ~(\E p \in ProxyPrefixes : startswith(proxy.s, p))
         THEN Raise("ProxyError",
                    <<"Proxy must start with http://, https://, or socks5://">>)
         ELSE Return(proxy)

\* Mutant: the constructor stores the proxy and leaves validation to the calls.
init_proxy_unvalidated(proxy) == Return(proxy)

\* line 27: self.proxy = self._validate_proxy(proxy) if proxy else None
init_proxy(proxy) ==
    IF Truthy(proxy) THEN validate_proxy(proxy) ELSE Return(PyNone)

\* Mutant: the client-level proxy wins over the per-call proxy.
solving_proxy_default_first(proxy, self_proxy) ==
    IF Truthy(self_proxy)
    THEN Return(self_proxy)
    ELSE IF Truthy(proxy) THEN validate_proxy(proxy) ELSE Return(self_proxy)

\* line 117: solving_proxy = self._validate_proxy(proxy) if proxy else self.proxy
solving_proxy(proxy, self_proxy) ==
    IF Truthy(proxy) THEN validate_proxy(proxy) ELSE Return(self_proxy)

-----------------------------------------------------------------------------
(* Decoded JSON bodies.  keys is the set of fields present in the object;  *)
(* rkeys the fields present in the nested `result` object.                 *)

EmptyBody ==
    [keys |-> {}, error |-> "", taskId |-> "", status |-> "",
     rkeys |-> {}, solution |-> "", balance |-> ""]

\* What a request yields: a decoded body, or a transport failure
\* (aiohttp.ClientError) with its message.
Ok(body) == [fail |-> FALSE, body |-> body, err |-> ""]

TransportFailure(m) == [fail |-> TRUE, body |-> EmptyBody, err |-> m]

CreateTaskResponses ==
    { Ok([EmptyBody EXCEPT !.keys = {"taskId"}, !.taskId = "T1"]),
      Ok([EmptyBody EXCEPT !.keys = {"taskId"}, !.taskId = "T2"]),
      Ok([EmptyBody EXCEPT !.keys = {"error"}, !.error = "E1"]),
      Ok([EmptyBody EXCEPT !.keys = {"error", "taskId"},
                           !.error = "E2", !.taskId = "T1"]),
      Ok(EmptyBody),
      TransportFailure("reset") }

Completed(sol) ==
    [EmptyBody EXCEPT !.keys = {"status", "result"}, !.status = "completed",
                      !.rkeys = {"solution"}, !.solution = sol]

PollResponses ==
    { Ok([EmptyBody EXCEPT !.keys = {"status"}, !.status = "processing"]),
      Ok([EmptyBody EXCEPT !.keys = {"status"}, !.status = "queued"]),
      Ok(Completed("S1")),
      Ok(Completed("S2")),
      Ok([EmptyBody EXCEPT !.keys = {"status"}, !.status = "completed"]),
      Ok([EmptyBody EXCEPT !.keys = {"status"}, !.status = "failed"]),
      Ok(EmptyBody),
      TransportFailure("reset") }

BalanceResponses ==
    { Ok([EmptyBody EXCEPT !.keys = {"balance"}, !.balance = "B1"]),
      Ok([EmptyBody EXCEPT !.keys = {"error"}, !.error = "bad key"]),
      Ok([EmptyBody EXCEPT !.keys = {"error", "balance"},
                           !.error = "no funds", !.balance = "B0"]),
      Ok(EmptyBody),
      TransportFailure("reset") }

\* Header sets of the caller's roblox_session.
HeaderSets == { {"sec-ch-ua", "user-agent"}, {"sec-ch-ua"}, {} }

\* max_retries arguments: range() of a negative number is empty.
RetryArgs == (0 - 1) .. MaxRetries

\* retry_delay arguments, in units of time; 0 is allowed.
RetryDelays == {0, 2}

-----------------------------------------------------------------------------
(* Decisions of solve_funcaptcha at its two response points.  Pending      *)
(* means: no return and no raise, execution goes on.                       *)

\* Mutant: taskId is looked up before the error field is tested.
create_task_step_taskid_first(resp) ==
    IF resp.fail
    THEN Raise("aiohttp.ClientError", <<resp.err>>)
    ELSE IF "taskId" \in resp.body.keys
         THEN Pending
         ELSE IF "error" \in resp.body.keys
              THEN Raise("TaskError", <<resp.body.error>>)
              ELSE Raise("KeyError", <<"taskId">>)

\* lines 147-156: no handler surrounds the request, so a transport failure
\* leaves the coroutine as the aiohttp.ClientError it is.
create_task_step(resp) ==
    IF resp.fail
    THEN Raise("aiohttp.ClientError", <<resp.err>>)
    ELSE IF "error" \in resp.body.keys
         THEN Raise("TaskError", <<resp.body.error>>)
         ELSE IF "taskId" \notin resp.body.keys
              THEN Raise("KeyError", <<"taskId">>)
              ELSE Pending

\* The classification of a decoded taskResult body (lines 166-169).
poll_body_step(body) ==
    IF "status" \notin body.keys
    THEN Raise("KeyError", <<"status">>)
    ELSE IF body.status = "completed"
         THEN IF "result" \notin body.keys
              THEN Raise("KeyError", <<"result">>)
              ELSE IF "solution" \notin body.rkeys
                   THEN Raise("KeyError", <<"solution">>)
                   ELSE Return(JStr(body.solution))
         ELSE IF body.status = "failed"
              THEN Return(PyNone)
              ELSE Pending

\* Mutant: a completed task is only accepted on the last attempt.
poll_step_completed_ignored(resp) ==
    IF resp.fail
    THEN Raise("aiohttp.ClientError", <<resp.err>>)
    ELSE IF "status" \in resp.body.keys /\ resp.body.status = "completed"
         THEN Pending
         ELSE poll_body_step(resp.body)

\* Mutant: a failed task is reported as an error.
poll_step_failed_raises(resp) ==
    IF resp.fail
    THEN Raise("aiohttp.ClientError", <<resp.err>>)
    ELSE IF "status" \in resp.body.keys /\ resp.body.status = "failed"
         THEN Raise("TaskError", <<"failed">>)
         ELSE poll_body_step(resp.body)

\* Mutant: a transport failure of a poll is swallowed and the poll retried.
poll_step_failure_retried(resp) ==
    IF resp.fail THEN Pending ELSE poll_body_step(resp.body)

\* lines 161-169
poll_step(resp) ==
    IF resp.fail
    THEN Raise("aiohttp.ClientError", <<resp.err>>)
    ELSE poll_body_step(resp.body)

\* Mutant: the loop bound is off by one.
range_has_next_inclusive(done, max_retries) == done <= max_retries

\* line 158: for _ in range(max_retries) has another iteration after `done`
\* iterations have been started.
range_has_next(done, max_retries) == done < max_retries

\* Mutant: the handler of line 77 also catches the InvalidKey raised inside
\* the try block and reports it as a connection error.
balance_step_handler_catches_all(resp) ==
    IF resp.fail
    THEN Raise("RoSolveException", <<"Connection error: ", resp.err>>)
    ELSE IF "error" \in resp.body.keys
         THEN Raise("RoSolveException", <<"Connection error: ", resp.body.error>>)
         ELSE IF "balance" \notin resp.body.keys
              THEN Raise("KeyError", <<"balance">>)
              ELSE Return(JStr(resp.body.balance))

\* lines 65-78
balance_step(resp) ==
    IF resp.fail
    THEN Raise("RoSolveException", <<"Connection error: ", resp.err>>)
    ELSE IF "error" \in resp.body.keys
         THEN Raise("InvalidKey", <<resp.body.error>>)
         ELSE IF "balance" \notin resp.body.keys
              THEN Raise("KeyError", <<"balance">>)
              ELSE Return(JStr(resp.body.balance))

-----------------------------------------------------------------------------
(* State.                                                                  *)
(*   sessions[s]  an aiohttp.ClientSession: who created it (0: the caller) *)
(*   clients[c]   a Client object slot                                     *)
(*   calls[i]     one invocation of get_balance or solve_funcaptcha        *)

NoPayload == [sent |-> FALSE, key |-> "", blob |-> "", cookie |-> "",
              headers |-> {}, proxy |-> PyNone]

\* closes counts the invocations of Client.close; scope is the position of
\* the client's `async with` block.
UnbuiltClient ==
    [state |-> "unbuilt", api_key |-> "", session |-> 0, proxy |-> PyNone,
     proxy_arg |-> PyNone, error |-> Pending, closes |-> 0, scope |-> "none"]

IdleCall ==
    [op |-> "none", pc |-> "idle", client |-> 0, proxy_arg |-> PyNone,
     headers_arg |-> {}, max_retries |-> 0, payload |-> NoPayload,
     task_id |-> "", retry_delay |-> 0, slept |-> 0,
     iter |-> 0, log |-> <<>>, post_resp |-> <<>>, poll_resps |-> <<>>,
     outcome |-> Pending]

\* Events of a call, in order: requests issued and delays started.
Event(e, a) == [ev |-> e, arg |-> a]

Count(log, e) == Cardinality({k \in 1..Len(log) : log[k].ev = e})

\* A session as aiohttp.ClientSession() yields it; closes counts the
\* invocations of its close().
NewSession(creator) == [state |-> "open", created_by |-> creator, closes |-> 0]

\* Mutant: the first poll is issued without a delay before it.
start_iteration_no_sleep(call) ==
    [call EXCEPT !.iter = @ + 1,
                 !.pc = IF @ = "awaitPost" THEN "awaitGet" ELSE "sleeping",
                 !.log = Append(@, IF call.pc = "awaitPost"
                                   THEN Event("get", call.task_id)
                                   ELSE Event("sleep", ""))]

\* Mutant: the delay grows with the attempt number (linear backoff).
start_iteration_backoff(call) ==
    [call EXCEPT !.iter = @ + 1, !.pc = "sleeping",
                 !.slept = @ + call.retry_delay * (call.iter + 1),
                 !.log = Append(@, Event("sleep", ""))]

\* lines 158-159: the loop starts an iteration, which begins with
\* asyncio.sleep(retry_delay).
start_iteration(call) ==
    [call EXCEPT !.iter = @ + 1, !.pc = "sleeping",
                 !.slept = @ + call.retry_delay,
                 !.log = Append(@, Event("sleep", ""))]

\* Mutant: after the last attempt the coroutine awaits a response it never
\* requested instead of returning.
finish_exhausted_awaits(call) == [call EXCEPT !.pc = "awaitNothing"]

\* line 171: the loop is exhausted.
finish_exhausted(call) == [call EXCEPT !.pc = "done", !.outcome = Return(PyNone)]

\* Mutant: the poll goes to the task identifier obtained last by any call,
\* as if the identifier were kept on the shared client.
poll_event_shared(call) ==
    LET holders == {j \in DOMAIN calls : calls[j].task_id # ""}
        last == CHOOSE j \in holders : \A k \in holders : k <= j
    IN Event("get", calls[last].task_id)

\* Mutant: the poll is not addressed to the task identifier.
poll_event_unaddressed(call) == Event("get", "")

\* lines 161-163: GET {BASE_URL}/taskResult/{task_id}
poll_event(call) == Event("get", call.task_id)

\* One caller-created session exists; nClients client slots and nCalls
\* invocation slots are unused.
InitWith(nClients, nCalls) ==
    /\ sessions = <<NewSession(0)>>
    /\ clients = [c \in 1..nClients |-> UnbuiltClient]
    /\ calls = [i \in 1..nCalls |-> IdleCall]

Init == InitWith(1, 1)

\* lines 24-27: Client(api_key, session, proxy).  session_arg 0 is None.
Construct(c, session_arg, proxy) ==
    /\ clients[c].state = "unbuilt"
    /\ LET fresh == Len(sessions) + 1
           sess == IF session_arg # 0 THEN session_arg ELSE fresh
           v == init_proxy(proxy)
       IN /\ sessions' = IF session_arg # 0 THEN sessions
                         ELSE Append(sessions, NewSession(c))
          /\ clients' = [clients EXCEPT ![c] =
                 [state |-> IF v.kind = "return" THEN "live" ELSE "failed",
                  api_key |-> "K", session |-> sess,
                  proxy |-> v.val, proxy_arg |-> proxy,
                  error |-> IF v.kind = "return" THEN Pending ELSE v,
                  closes |-> 0, scope |-> "none"]]
    /\ UNCHANGED calls

\* Mutant: the resolved proxy is stored on the client (self.proxy = ...).
SolveCall_stores_proxy(i, c, proxy, max_retries, retry_delay, headers) ==
    /\ calls[i].pc = "idle"
    /\ clients[c].state = "live"
    /\ LET sp == solving_proxy(proxy, clients[c].proxy)
           base == [calls[i] EXCEPT !.op = "solve", !.client = c,
                                    !.proxy_arg = proxy,
                                    !.headers_arg = headers,
                                    !.max_retries = max_retries,
                                    !.retry_delay = retry_delay]
       IN /\ calls' = [calls EXCEPT ![i] =
               IF sp.kind = "raise"
               THEN [base EXCEPT !.pc = "done", !.outcome = sp]
               ELSE IF "sec-ch-ua" \notin headers
               THEN [base EXCEPT !.pc = "done",
                                 !.outcome = Raise("KeyError", <<"sec-ch-ua">>)]
               ELSE IF "user-agent" \notin headers
               THEN [base EXCEPT !.pc = "done",
                                 !.outcome = Raise("KeyError", <<"user-agent">>)]
               ELSE [base EXCEPT
                       !.pc = "awaitPost",
                       !.payload = [sent |-> TRUE, key |-> clients[c].api_key,
                                    blob |-> "blob", cookie |-> "",
                                    headers |-> headers, proxy |-> sp.val],
                       !.log = <<Event("post", "createTask")>>]]
          /\ clients' = IF sp.kind = "raise" THEN clients
                        ELSE [clients EXCEPT ![c].proxy = sp.val]
    /\ UNCHANGED sessions

\* lines 117-149: up to the first await of solve_funcaptcha.
SolveCall(i, c, proxy, max_retries, retry_delay, headers) ==
    /\ calls[i].pc = "idle"
    /\ clients[c].state = "live"
    /\ LET sp == solving_proxy(proxy, clients[c].proxy)
           base == [calls[i] EXCEPT !.op = "solve", !.client = c,
                                    !.proxy_arg = proxy,
                                    !.headers_arg = headers,
                                    !.max_retries = max_retries,
                                    !.retry_delay = retry_delay]
       IN calls' = [calls EXCEPT ![i] =
            IF sp.kind = "raise"
            THEN [base EXCEPT !.pc = "done", !.outcome = sp]
            ELSE IF "sec-ch-ua" \notin headers
            THEN [base EXCEPT !.pc = "done",
                              !.outcome = Raise("KeyError", <<"sec-ch-ua">>)]
            ELSE IF "user-agent" \notin headers
            THEN [base EXCEPT !.pc = "done",
                              !.outcome = Raise("KeyError", <<"user-agent">>)]
            ELSE [base EXCEPT
                    !.pc = "awaitPost",
                    !.payload = [sent |-> TRUE, key |-> clients[c].api_key,
                                 blob |-> "blob", cookie |-> "",
                                 headers |-> headers, proxy |-> sp.val],
                    !.log = <<Event("post", "createTask")>>]]
    /\ UNCHANGED <<sessions, clients>>

\* lines 150-159: the createTask response arrives.
CreateTaskResult(i, resp) ==
    /\ calls[i].pc = "awaitPost"
    /\ LET d == create_task_step(resp)
           got == [calls[i] EXCEPT !.post_resp = <<resp>>]
       IN calls' = [calls EXCEPT ![i] =
            IF d.kind # "pending"
            THEN [got EXCEPT !.pc = "done", !.outcome = d]
            ELSE IF range_has_next(0, got.max_retries)
            THEN start_iteration([got EXCEPT !.task_id = resp.body.taskId])
            ELSE finish_exhausted([got EXCEPT !.task_id = resp.body.taskId])]
    /\ UNCHANGED <<sessions, clients>>

\* lines 159-163: asyncio.sleep(retry_delay) is over, the poll is issued.
Wake(i) ==
    /\ calls[i].pc = "sleeping"
    /\ calls' = [calls EXCEPT ![i] =
            [@ EXCEPT !.pc = "awaitGet",
                      !.log = Append(@, poll_event(calls[i]))]]
    /\ UNCHANGED <<sessions, clients>>

\* lines 164-171: the taskResult response arrives.
PollResult(i, resp) ==
    /\ calls[i].pc = "awaitGet"
    /\ LET d == poll_step(resp)
           got == [calls[i] EXCEPT !.poll_resps = Append(@, resp)]
       IN calls' = [calls EXCEPT ![i] =
            IF d.kind # "pending"
            THEN [got EXCEPT !.pc = "done", !.outcome = d]
            ELSE IF range_has_next(got.iter, got.max_retries)
            THEN start_iteration(got)
            ELSE finish_exhausted(got)]
    /\ UNCHANGED <<sessions, clients>>

\* Mutant: close() is invoked on the session whether or not it is closed.
close_needed_always(s) == TRUE

\* Mutant: only a session the client created itself is closed.
close_needed_if_owned(s) ==
    sessions[s].state # "closed" /\ sessions[s].created_by # 0

\* line 37: if self._session and not self._session.closed
\* (a ClientSession object is always truthy).
close_needed(s) == sessions[s].state # "closed"

\* lines 35-38: Client.close.  ClientSession.close() marks the session
\* closed before it first suspends, so test and close are one step.
close_session(s) ==
    IF close_needed(s)
    THEN [sessions EXCEPT ![s].state = "closed", ![s].closes = @ + 1]
    ELSE sessions

Close(c) ==
    /\ clients[c].state = "live"
    /\ clients[c].closes < MaxCloses
    /\ sessions' = close_session(clients[c].session)
    /\ clients' = [clients EXCEPT ![c].closes = @ + 1]
    /\ UNCHANGED calls

\* lines 29-30: __aenter__ returns the client.
AEnter(c) ==
    /\ clients[c].state = "live"
    /\ clients[c].scope = "none"
    /\ clients' = [clients EXCEPT ![c].scope = "entered"]
    /\ UNCHANGED <<sessions, calls>>

\* lines 32-33: __aexit__ runs when the block is left, normally or by an
\* exception, and awaits close().
AExit(c) ==
    /\ clients[c].state = "live"
    /\ clients[c].scope = "entered"
    /\ clients[c].closes < MaxCloses
    /\ sessions' = close_session(clients[c].session)
    /\ clients' = [clients EXCEPT ![c].closes = @ + 1, ![c].scope = "exited"]
    /\ UNCHANGED calls

\* lines 65-70: get_balance issues its request.
BalanceCall(i, c) ==
    /\ calls[i].pc = "idle"
    /\ clients[c].state = "live"
    /\ calls' = [calls EXCEPT ![i] =
            [@ EXCEPT !.op = "balance", !.client = c, !.pc = "awaitBalance",
                      !.log = <<Event("get", "getBalance")>>]]
    /\ UNCHANGED <<sessions, clients>>

\* lines 71-78: the getBalance response arrives.
BalanceResult(i, resp) ==
    /\ calls[i].pc = "awaitBalance"
    /\ calls' = [calls EXCEPT ![i] =
            [@ EXCEPT !.post_resp = <<resp>>, !.pc = "done",
                      !.outcome = balance_step(resp)]]
    /\ UNCHANGED <<sessions, clients>>

Next ==
    \/ \E c \in DOMAIN clients, s \in {0} \cup DOMAIN sessions,
          p \in ProxyArgs : Construct(c, s, p)
    \/ \E i \in DOMAIN calls, c \in DOMAIN clients, p \in ProxyArgs,
          m \in RetryArgs, d \in RetryDelays, h \in HeaderSets :
            SolveCall(i, c, p, m, d, h)
    \/ \E i \in DOMAIN calls, r \in CreateTaskResponses : CreateTaskResult(i, r)
    \/ \E i \in DOMAIN calls : Wake(i)
    \/ \E i \in DOMAIN calls, r \in PollResponses : PollResult(i, r)
    \/ \E i \in DOMAIN calls, c \in DOMAIN clients : BalanceCall(i, c)
    \/ \E i \in DOMAIN calls, r \in BalanceResponses : BalanceResult(i, r)

Spec == Init /\ [][Next]_vars

-----------------------------------------------------------------------------
(* Vocabulary of the properties.                                           *)

SolveCalls == {i \in DOMAIN calls : calls[i].op = "solve"}

Polls(i) == Count(calls[i].log, "get")

Delays(i) == Count(calls[i].log, "sleep")

\* The createTask response of call i was a decoded body.
GotBody(i) == Len(calls[i].post_resp) = 1 /\ ~calls[i].post_resp[1].fail

SubmitBody(i) == calls[i].post_resp[1].body

\* The submission of call i yielded a task identifier.
TaskObtained(i) ==
    /\ GotBody(i)
    /\ "error" \notin SubmitBody(i).keys
    /\ "taskId" \in SubmitBody(i).keys

HasStatus(r, st) == ~r.fail /\ "status" \in r.body.keys /\ r.body.status = st

NonTerminal(r) ==
    /\ ~r.fail
    /\ "status" \in r.body.keys
    /\ r.body.status \notin {"completed", "failed"}

\* Poll number k of call i is the first one with terminal status st.
FirstTerminalAt(i, k, st) ==
    /\ k \in 1..Len(calls[i].poll_resps)
    /\ HasStatus(calls[i].poll_resps[k], st)
    /\ \A j \in 1..(k - 1) : NonTerminal(calls[i].poll_resps[j])

\* A str with one of the three accepted prefixes.
ValidFormat(p) == p.t = "str" /\ \E q \in ProxyPrefixes : startswith(p.s, q)

-----------------------------------------------------------------------------
\* C1: when the createTask body has an `error` field the call is over with
\* TaskError carrying that message, and it has issued no poll request and
\* started no delay, whatever max_retries is.
C1_ErrorFieldRaisesTaskError ==
    \A i \in SolveCalls :
        (GotBody(i) /\ "error" \in SubmitBody(i).keys)
        => /\ calls[i].pc = "done"
           /\ calls[i].outcome = Raise("TaskError", <<SubmitBody(i).error>>)
           /\ Polls(i) = 0
           /\ Delays(i) = 0
           /\ calls[i].poll_resps = <<>>
           /\ calls[i].log = <<Event("post", "createTask")>>

\* An error body that also carries a taskId, on a call with a poll budget.
C1_Witness ==
    \E i \in SolveCalls :
        /\ GotBody(i)
        /\ {"error", "taskId"} \subseteq SubmitBody(i).keys
        /\ calls[i].max_retries = MaxRetries
        /\ calls[i].outcome.exc = "TaskError"

\* C2: when the first terminal status is `completed` with solution S at poll
\* k, the call has returned S after exactly k polls and k delays, and poll k
\* is the last request it issued.
C2_CompletedReturnsSolution ==
    \A i \in SolveCalls : \A k \in 1..Len(calls[i].poll_resps) :
        LET b == calls[i].poll_resps[k].body IN
        (/\ FirstTerminalAt(i, k, "completed")
         /\ "result" \in b.keys
         /\ "solution" \in b.rkeys)
        => /\ calls[i].pc = "done"
           /\ calls[i].outcome = Return(JStr(b.solution))
           /\ k <= calls[i].max_retries
           /\ Len(calls[i].poll_resps) = k
           /\ Polls(i) = k
           /\ Delays(i) = k
           /\ Len(calls[i].log) = 1 + 2 * k
           /\ calls[i].log[Len(calls[i].log)].ev = "get"

\* Completion at the second poll, one attempt before the budget ends.
C2_Witness ==
    \E i \in SolveCalls :
        /\ FirstTerminalAt(i, 2, "completed")
        /\ calls[i].max_retries > 2
        /\ calls[i].outcome = Return(JStr("S2"))

\* C3: when the first terminal status is `failed` at poll k, the call has
\* returned None (it did not raise) after exactly k polls, and poll k is the
\* last request it issued.
C3_FailedReturnsNone ==
    \A i \in SolveCalls : \A k \in 1..Len(calls[i].poll_resps) :
        FirstTerminalAt(i, k, "failed")
        => /\ calls[i].pc = "done"
           /\ calls[i].outcome.kind = "return"
           /\ calls[i].outcome.val = PyNone
           /\ k <= calls[i].max_retries
           /\ Len(calls[i].poll_resps) = k
           /\ Polls(i) = k
           /\ Len(calls[i].log) = 1 + 2 * k
           /\ calls[i].log[Len(calls[i].log)].ev = "get"

\* A failed status at the second poll, one attempt before the budget ends.
C3_Witness ==
    \E i \in SolveCalls :
        /\ FirstTerminalAt(i, 2, "failed")
        /\ calls[i].max_retries > 2
        /\ calls[i].pc = "done"

\* C4: with max_retries >= 0 and only non-terminal statuses polled, the call
\* never raises, it ends exactly when max_retries polls are answered, and it
\* then returns None: the value an explicit `failed` status yields.
C4_ExhaustionReturnsNone ==
    \A i \in SolveCalls :
        (/\ TaskObtained(i)
         /\ calls[i].max_retries >= 0
         /\ \A j \in 1..Len(calls[i].poll_resps) :
                NonTerminal(calls[i].poll_resps[j]))
        => /\ calls[i].outcome.kind # "raise"
           /\ Polls(i) <= calls[i].max_retries
           /\ calls[i].pc = "done"
                <=> Len(calls[i].poll_resps) = calls[i].max_retries
           /\ calls[i].pc = "done"
                => /\ Polls(i) = calls[i].max_retries
                   /\ Delays(i) = calls[i].max_retries
                   /\ calls[i].outcome = Return(PyNone)
                   /\ calls[i].outcome =
                        poll_step(Ok([EmptyBody EXCEPT !.keys = {"status"},
                                                       !.status = "failed"]))

\* The whole budget used on statuses that include one other than
\* "processing".
C4_Witness ==
    \E i \in SolveCalls :
        /\ TaskObtained(i)
        /\ calls[i].pc = "done"
        /\ calls[i].max_retries >= 2
        /\ Len(calls[i].poll_resps) = calls[i].max_retries
        /\ \A j \in 1..Len(calls[i].poll_resps) :
                NonTerminal(calls[i].poll_resps[j])
        /\ \E j \in 1..Len(calls[i].poll_resps) :
                calls[i].poll_resps[j].body.status = "queued"

\* A call with max_retries = 0 that obtained its task: no poll, None.
C4_ZeroBudget ==
    \E i \in SolveCalls :
        /\ TaskObtained(i)
        /\ calls[i].max_retries = 0
        /\ calls[i].pc = "done"

\* C5 (as claimed): a transport failure of the createTask request or of a
\* poll request reaches the caller of solve_funcaptcha as RoSolveException
\* "Connection error: <message>", the way get_balance reports it.
C5_TransportFailureIsConnectionError ==
    \A i \in DOMAIN calls :
        /\ (calls[i].op \in {"solve", "balance"}
            /\ Len(calls[i].post_resp) = 1 /\ calls[i].post_resp[1].fail)
           => calls[i].outcome =
                Raise("RoSolveException",
                      <<"Connection error: ", calls[i].post_resp[1].err>>)
        /\ \A k \in 1..Len(calls[i].poll_resps) :
             calls[i].poll_resps[k].fail
             => calls[i].outcome =
                  Raise("RoSolveException",
                        <<"Connection error: ", calls[i].poll_resps[k].err>>)

\* C6: a request of a solve call that fails in the transport is the last
\* event of that call: nothing is issued and no delay is started after it,
\* and the call is over with an error.
C6_NoRetryAfterTransportFailure ==
    \A i \in SolveCalls :
        /\ (Len(calls[i].post_resp) = 1 /\ calls[i].post_resp[1].fail)
           => /\ calls[i].pc = "done"
              /\ calls[i].outcome.kind = "raise"
              /\ calls[i].log = <<Event("post", "createTask")>>
              /\ calls[i].poll_resps = <<>>
        /\ \A k \in 1..Len(calls[i].poll_resps) :
             calls[i].poll_resps[k].fail
             => /\ calls[i].pc = "done"
                /\ calls[i].outcome.kind = "raise"
                /\ Len(calls[i].poll_resps) = k
                /\ Polls(i) = k
                /\ Delays(i) = k
                /\ Len(calls[i].log) = 1 + 2 * k
                /\ calls[i].log[Len(calls[i].log)].ev = "get"

\* The first poll fails in the transport while attempts remain.
C6_Witness ==
    \E i \in SolveCalls :
        /\ Len(calls[i].poll_resps) = 1
        /\ calls[i].poll_resps[1].fail
        /\ calls[i].max_retries >= 2
        /\ calls[i].pc = "done"

\* C7 (as claimed): a solve call that received only decoded bodies ends with
\* a solution string, with None, or with an error of the documented taxonomy
\* (Task-Creation, Proxy, Connection).
C7_OutcomeInTaxonomy ==
    \A i \in SolveCalls :
        (/\ calls[i].pc = "done"
         /\ GotBody(i)
         /\ \A k \in 1..Len(calls[i].poll_resps) : ~calls[i].poll_resps[k].fail)
        => \/ /\ calls[i].outcome.kind = "return"
              /\ calls[i].outcome.val.t \in {"jstr", "none"}
           \/ /\ calls[i].outcome.kind = "raise"
              /\ calls[i].outcome.exc
                   \in {"TaskError", "ProxyError", "RoSolveException"}

\* C8 (as claimed): the payload carries the per-call proxy whenever one is
\* passed, else the client-level proxy, else None.
C8_GivenProxyIsSent ==
    \A i \in SolveCalls :
        calls[i].payload.sent
        => calls[i].payload.proxy =
             IF calls[i].proxy_arg # PyNone
             THEN calls[i].proxy_arg
             ELSE clients[calls[i].client].proxy

\* C8 (amended): the payload carries the per-call proxy when it is truthy
\* (not None, not empty), else the client-level proxy, which is the
\* constructor's proxy when that was truthy and None otherwise.
C8_TruthyProxyPrecedence ==
    \A i \in SolveCalls :
        LET c == clients[calls[i].client] IN
        calls[i].payload.sent
        => /\ calls[i].payload.proxy =
                IF Truthy(calls[i].proxy_arg)
                THEN calls[i].proxy_arg
                ELSE IF Truthy(c.proxy_arg) THEN c.proxy_arg ELSE PyNone
           /\ calls[i].payload.key = c.api_key

\* A per-call proxy overrides a different client-level proxy.
C8_Witness ==
    \E i \in SolveCalls :
        /\ calls[i].payload.sent
        /\ Truthy(calls[i].proxy_arg)
        /\ Truthy(clients[calls[i].client].proxy)
        /\ clients[calls[i].client].proxy # calls[i].proxy_arg
        /\ calls[i].payload.proxy = calls[i].proxy_arg

\* C9 (as claimed): every per-call proxy string without an accepted prefix
\* ends the call with ProxyError before any request (stated for calls whose
\* roblox_session carries both headers, so that nothing else can end them).
C9_EveryBadStringRaises ==
    \A i \in SolveCalls :
        (/\ calls[i].proxy_arg.t = "str"
         /\ ~ValidFormat(calls[i].proxy_arg)
         /\ calls[i].headers_arg = {"sec-ch-ua", "user-agent"})
        => /\ calls[i].pc = "done"
           /\ calls[i].outcome.exc = "ProxyError"
           /\ calls[i].log = <<>>

\* C9 (amended): every non-empty per-call proxy string without an accepted
\* prefix ends the call with ProxyError before any request or delay; a
\* string with an accepted prefix never raises ProxyError and is sent
\* unchanged; the empty string is not validated.
C9_NonEmptyBadStringRaises ==
    \A i \in SolveCalls :
        LET p == calls[i].proxy_arg IN
        /\ (p.t = "str" /\ Len(p.s) > 0 /\ ~ValidFormat(p))
           => /\ calls[i].pc = "done"
              /\ calls[i].outcome.kind = "raise"
              /\ calls[i].outcome.exc = "ProxyError"
              /\ calls[i].log = <<>>
              /\ ~calls[i].payload.sent
        /\ ValidFormat(p)
           => /\ calls[i].outcome.exc # "ProxyError"
              /\ calls[i].payload.sent => calls[i].payload.proxy = p
        /\ (p.t = "str" /\ Len(p.s) = 0)
           => calls[i].outcome.exc # "ProxyError"

\* A call with a non-empty string that has a scheme name but no "://".
C9_Witness ==
    \E i \in SolveCalls :
        /\ calls[i].proxy_arg = PyStr(<<"h","t","t","p">>)
        /\ calls[i].outcome.exc = "ProxyError"
        /\ calls[i].pc = "done"

\* C10 (as claimed): constructing a client with any default proxy that is
\* not a string with an accepted prefix fails with ProxyError.
C10_EveryBadDefaultFails ==
    \A c \in DOMAIN clients :
        (/\ clients[c].state # "unbuilt"
         /\ clients[c].proxy_arg # PyNone
         /\ ~ValidFormat(clients[c].proxy_arg))
        => /\ clients[c].state = "failed"
           /\ clients[c].error.exc = "ProxyError"

\* C10 (amended): constructing a client with a truthy default proxy of
\* invalid format fails with ProxyError; a falsy one (None, "", 0) is taken
\* as no proxy.  A constructed client holds None or a proxy of valid format,
\* and a call without a per-call proxy never raises ProxyError.
C10_TruthyBadDefaultFails ==
    /\ \A c \in DOMAIN clients :
        LET p == clients[c].proxy_arg IN
        clients[c].state # "unbuilt"
        => /\ (Truthy(p) /\ ~ValidFormat(p))
                => /\ clients[c].state = "failed"
                   /\ clients[c].error.exc = "ProxyError"
           /\ (~Truthy(p) \/ ValidFormat(p)) => clients[c].state = "live"
           /\ clients[c].state = "live"
                => /\ clients[c].proxy = PyNone \/ ValidFormat(clients[c].proxy)
                   /\ ~Truthy(p) => clients[c].proxy = PyNone
                   /\ Truthy(p) => clients[c].proxy = p
    /\ \A i \in SolveCalls :
        ~Truthy(calls[i].proxy_arg) => calls[i].outcome.exc # "ProxyError"

\* A construction that failed on a non-empty string of invalid format.
C10_Witness ==
    \E c \in DOMAIN clients :
        /\ clients[c].state = "failed"
        /\ clients[c].proxy_arg.t = "str"
        /\ clients[c].error.exc = "ProxyError"

\* C13: get_balance raises InvalidKey with the message of the body's `error`
\* field (not a Connection error), and returns the `balance` value of a
\* body that has no `error` field.
C13_BalanceClassifiesResponse ==
    \A i \in DOMAIN calls :
        (calls[i].op = "balance" /\ GotBody(i))
        => /\ calls[i].pc = "done"
           /\ "error" \in SubmitBody(i).keys
                => calls[i].outcome = Raise("InvalidKey", <<SubmitBody(i).error>>)
           /\ ("error" \notin SubmitBody(i).keys
               /\ "balance" \in SubmitBody(i).keys)
                => calls[i].outcome = Return(JStr(SubmitBody(i).balance))

\* An error body answered get_balance.
C13_Witness ==
    \E i \in DOMAIN calls :
        /\ calls[i].op = "balance"
        /\ GotBody(i)
        /\ SubmitBody(i).error = "bad key"
        /\ calls[i].outcome.exc = "InvalidKey"

\* C14: a solve call issues at most one createTask request, and it is the
\* first event; it obtains at most one task identifier; every poll request
\* comes after the identifier was obtained and is addressed to it.
C14_OneTaskPolledByItsId ==
    \A i \in SolveCalls :
        /\ Count(calls[i].log, "post") <= 1
        /\ Len(calls[i].post_resp) <= 1
        /\ calls[i].task_id # ""
             => TaskObtained(i) /\ calls[i].task_id = SubmitBody(i).taskId
        /\ \A k \in 1..Len(calls[i].log) :
             /\ calls[i].log[k].ev = "post" <=> k = 1
             /\ calls[i].log[k].ev = "get"
                  => /\ TaskObtained(i)
                     /\ calls[i].log[k].arg = SubmitBody(i).taskId

\* Two polls were issued for task T2.
C14_Witness ==
    \E i \in SolveCalls :
        /\ Polls(i) = 2
        /\ calls[i].task_id = "T2"
        /\ calls[i].log[Len(calls[i].log)] = Event("get", "T2")

\* C15: for max_retries >= 0 a solve call never has more than max_retries
\* polls issued or delays started, and its accumulated delay is the number
\* of its delays times retry_delay, at most max_retries * retry_delay.
C15_PollsAndDelaysBounded ==
    \A i \in SolveCalls :
        calls[i].max_retries >= 0
        => /\ Polls(i) <= calls[i].max_retries
           /\ Delays(i) <= calls[i].max_retries
           /\ Len(calls[i].poll_resps) <= Polls(i)
           /\ calls[i].slept = Delays(i) * calls[i].retry_delay
           /\ calls[i].slept <= calls[i].max_retries * calls[i].retry_delay

\* A call that used its whole budget with a positive delay.
C15_Witness ==
    \E i \in SolveCalls :
        /\ calls[i].max_retries = MaxRetries
        /\ Polls(i) = MaxRetries
        /\ calls[i].retry_delay > 0
        /\ calls[i].slept = MaxRetries * calls[i].retry_delay

\* C16: the events of a solve call are one submission followed by
\* alternating delay and poll, starting with a delay; delays - polls is 0
\* or 1, and a call that is over ended on its submission or on a poll.
C16_DelayPrecedesEveryPoll ==
    \A i \in SolveCalls :
        /\ \A k \in 1..Len(calls[i].log) :
             calls[i].log[k].ev =
                IF k = 1 THEN "post" ELSE IF k % 2 = 0 THEN "sleep" ELSE "get"
        /\ Delays(i) - Polls(i) \in {0, 1}
        /\ Delays(i) - Polls(i) = 1 <=> calls[i].pc = "sleeping"
        /\ calls[i].pc = "done" => Delays(i) = Polls(i)
        /\ calls[i].pc = "awaitGet" => Len(calls[i].poll_resps) = Polls(i) - 1

\* A call that returned after two polls.
C16_Witness ==
    \E i \in SolveCalls :
        /\ calls[i].pc = "done"
        /\ calls[i].outcome.kind = "return"
        /\ Polls(i) = 2
        /\ Delays(i) = 2

\* C17: no step of solve_funcaptcha changes a client (api key, default
\* proxy, session reference, and no field is added) or a session.
C17_SolveLeavesClientUnchanged ==
    [][(\E i \in DOMAIN calls :
            calls'[i] # calls[i] /\ calls'[i].op = "solve")
       => (clients' = clients /\ sessions' = sessions)]_vars

\* A call with a per-call proxy is over and the client still holds its own.
C17_Witness ==
    \E i \in SolveCalls :
        LET c == clients[calls[i].client] IN
        /\ calls[i].pc = "done"
        /\ calls[i].payload.sent
        /\ Truthy(calls[i].proxy_arg)
        /\ Truthy(c.proxy)
        /\ c.proxy # calls[i].proxy_arg
        /\ c.proxy = c.proxy_arg
        /\ c.api_key = "K"

-----------------------------------------------------------------------------
(* Termination.  The event loop resumes a coroutine whose request was      *)
(* answered or whose sleep is over: weak fairness of the resuming steps.   *)

Fairness ==
    /\ WF_vars(\E i \in DOMAIN calls, r \in CreateTaskResponses :
                  CreateTaskResult(i, r))
    /\ WF_vars(\E i \in DOMAIN calls : Wake(i))
    /\ WF_vars(\E i \in DOMAIN calls, r \in PollResponses : PollResult(i, r))
    /\ WF_vars(\E i \in DOMAIN calls, r \in BalanceResponses :
                  BalanceResult(i, r))

FairSpec == Init /\ [][Next]_vars /\ Fairness

\* C18: when every request is answered and every delay ends, a solve call
\* that was started reaches an outcome, whatever the responses are.
C18_SolveTerminates == (calls[1].op = "solve") ~> (calls[1].pc = "done")

\* A call ended by exhaustion: its service never reported a terminal status.
C18_Witness ==
    /\ calls[1].op = "solve"
    /\ calls[1].pc = "done"
    /\ calls[1].max_retries = MaxRetries
    /\ Len(calls[1].poll_resps) = MaxRetries
    /\ \A j \in 1..MaxRetries : HasStatus(calls[1].poll_resps[j], "processing")

-----------------------------------------------------------------------------
(* Concurrent solves: two invocations on one client, hence one session,    *)
(* interleaved at their suspension points.  The inputs are narrowed to the *)
(* ones that let both calls reach the polling loop.                        *)

ConcProxies == { PyNone, PyStr(<<"h","t","t","p",":","/","/","a">>) }

ConcCreateTaskResponses ==
    { Ok([EmptyBody EXCEPT !.keys = {"taskId"}, !.taskId = "T1"]),
      Ok([EmptyBody EXCEPT !.keys = {"taskId"}, !.taskId = "T2"]),
      Ok([EmptyBody EXCEPT !.keys = {"error"}, !.error = "E1"]),
      TransportFailure("reset") }

ConcPollResponses ==
    { Ok([EmptyBody EXCEPT !.keys = {"status"}, !.status = "processing"]),
      Ok(Completed("S1")),
      Ok(Completed("S2")),
      Ok([EmptyBody EXCEPT !.keys = {"status"}, !.status = "failed"]),
      TransportFailure("reset") }

ConcInit == InitWith(1, 2)

ConcNext ==
    \/ \E c \in DOMAIN clients, p \in ConcProxies : Construct(c, 1, p)
    \/ \E i \in DOMAIN calls, c \in DOMAIN clients, p \in ConcProxies,
          m \in {1, 2} :
            SolveCall(i, c, p, m, 2, {"sec-ch-ua", "user-agent"})
    \/ \E i \in DOMAIN calls, r \in ConcCreateTaskResponses :
            CreateTaskResult(i, r)
    \/ \E i \in DOMAIN calls : Wake(i)
    \/ \E i \in DOMAIN calls, r \in ConcPollResponses : PollResult(i, r)

ConcSpec == ConcInit /\ [][ConcNext]_vars

\* What a call was given: its arguments and the responses to its requests.
OwnInputs(i) ==
    <<calls[i].client, calls[i].proxy_arg, calls[i].headers_arg,
      calls[i].max_retries, calls[i].retry_delay,
      calls[i].post_resp, calls[i].poll_resps>>

\* C12: under every interleaving each call polls only the task identifier
\* of its own submission, and two finished calls that were given the same
\* arguments and the same responses have the same outcome and issued the
\* same requests: nothing of the other call enters.
C12_ConcurrentSolvesIndependent ==
    /\ \A i \in SolveCalls : \A k \in 1..Len(calls[i].log) :
          calls[i].log[k].ev = "get"
          => /\ TaskObtained(i)
             /\ calls[i].log[k].arg = SubmitBody(i).taskId
    /\ \A i \in SolveCalls : \A j \in SolveCalls :
          (/\ calls[i].pc = "done"
           /\ calls[j].pc = "done"
           /\ OwnInputs(i) = OwnInputs(j))
          => calls[i] = calls[j]

\* Both calls are in their polling loops at once, on different tasks.
C12_Witness ==
    /\ calls[1].client = calls[2].client
    /\ calls[1].task_id = "T1"
    /\ calls[2].task_id = "T2"
    /\ calls[1].pc = "awaitGet"
    /\ calls[2].pc = "sleeping"
    /\ Polls(1) = 2
    /\ Polls(2) = 1

-----------------------------------------------------------------------------
(* Session lifetime: two clients that may share the caller's session, one  *)
(* invocation, and close() / `async with` at any point.  A request on a    *)
(* session that was closed meanwhile is answered by the environment like   *)
(* any other (with a body or a failure).                                   *)

LifeProxies ==
    { PyNone, PyStr(<<"h","t","t","p",":","/","/","a">>),
      PyStr(<<"f","t","p",":","/","/","d">>) }

LifeInit == InitWith(2, 1)

LifeNext ==
    \/ \E c \in DOMAIN clients, s \in {0, 1}, p \in LifeProxies :
            Construct(c, s, p)
    \/ \E c \in DOMAIN clients : AEnter(c)
    \/ \E c \in DOMAIN clients : AExit(c)
    \/ \E c \in DOMAIN clients : Close(c)
    \/ \E i \in DOMAIN calls, c \in DOMAIN clients :
            SolveCall(i, c, PyNone, 1, 2, {"sec-ch-ua", "user-agent"})
    \/ \E i \in DOMAIN calls, r \in ConcCreateTaskResponses :
            CreateTaskResult(i, r)
    \/ \E i \in DOMAIN calls : Wake(i)
    \/ \E i \in DOMAIN calls, r \in ConcPollResponses : PollResult(i, r)
    \/ \E i \in DOMAIN calls, c \in DOMAIN clients : BalanceCall(i, c)
    \/ \E i \in DOMAIN calls, r \in BalanceResponses : BalanceResult(i, r)

LifeSpec == LifeInit /\ [][LifeNext]_vars

\* C11 (as claimed): once the construction of a client has failed, or its
\* `async with` block was left, no session that this client opened is open.
C11_SessionReleasedOnEveryExit ==
    \A c \in DOMAIN clients :
        (clients[c].state = "failed" \/ clients[c].scope = "exited")
        => \A s \in DOMAIN sessions :
              sessions[s].created_by = c => sessions[s].state = "closed"

\* C19: the session's close() is invoked at most once, and only on an open
\* session, however often Client.close and __aexit__ run; once a close of
\* the client has returned its session is closed.
C19_CloseIdempotent ==
    /\ \A s \in DOMAIN sessions :
          /\ sessions[s].closes <= 1
          /\ sessions[s].closes = 1 <=> sessions[s].state = "closed"
    /\ \A c \in DOMAIN clients :
          clients[c].closes >= 1
          => sessions[clients[c].session].state = "closed"

\* A client closed twice, once of them by leaving its block.
C19_Witness ==
    \E c \in DOMAIN clients :
        /\ clients[c].closes = 2
        /\ clients[c].scope = "exited"
        /\ sessions[clients[c].session].closes = 1

\* C20: after one client was closed, every live client holding the same
\* session holds a closed session, whoever created that session, and so
\* does every invocation in flight on it.
C20_CloseHitsSharedSession ==
    /\ \A c \in DOMAIN clients : \A d \in DOMAIN clients :
          (/\ clients[c].closes >= 1
           /\ clients[d].state = "live"
           /\ clients[d].session = clients[c].session)
          => sessions[clients[d].session].state = "closed"
    /\ \A c \in DOMAIN clients : \A i \in DOMAIN calls :
          (/\ clients[c].closes >= 1
           /\ calls[i].client # 0
           /\ clients[calls[i].client].session = clients[c].session)
          => sessions[clients[calls[i].client].session].state = "closed"

\* The caller's session is shared by two clients; one was closed while a
\* solve call of the other, which was never closed, is in flight.
C20_Witness ==
    \E c \in DOMAIN clients : \E d \in DOMAIN clients : \E i \in DOMAIN calls :
        /\ c # d
        /\ clients[c].closes >= 1
        /\ clients[d].state = "live"
        /\ clients[d].closes = 0
        /\ clients[c].session = clients[d].session
        /\ sessions[clients[c].session].created_by = 0
        /\ calls[i].client = d
        /\ calls[i].pc = "awaitGet"
        /\ sessions[clients[d].session].state = "closed"

====
